---- MODULE Spec2Model ----
(***************************************************************************)
(* Versioned cluster-state engine of the SUSS viewer (suss/gui/app.py,     *)
(* class SussViewer): the history stack, the selection / highlight state,  *)
(* the colour map and the three Qt signals UPDATED_CLUSTERS,               *)
(* CLUSTER_SELECT and CLUSTER_HIGHLIGHT.  Signals are delivered            *)
(* synchronously, so every published event is recorded together with the   *)
(* viewer state an observer reads (parent().dataset, .selected, .colors)   *)
(* at the moment of delivery.  The TimeseriesPlot view                     *)
(* (suss/gui/timeseries.py) is connected to the three signals and keeps    *)
(* one scatter per cluster label.                                          *)
(***************************************************************************)
EXTENDS Integers, Sequences, FiniteSets, TLC

\* ---------------------------------------------------------------- bounds
MaxLoadLabel == 2      \* the loaded dataset has labels 1..n, n <= MaxLoadLabel
MaxStack == 2          \* pushes are only explored below this stack length

\* cluster labels: those a loaded dataset can have and one more, which a
\* merge can give to its new node and a view can toggle though no node has it
MaxLabel == MaxLoadLabel + 1
Labels == 1..MaxLabel

\* Python's None (self.highlighted = None); labels are positive
None == 0

\* what the views pass to set_highlight: no label, or the label of a cluster
HighlightInputs == {None, 1}

VARIABLES
    stack,            \* self.stack: sequence of [act, ds]
    selected,         \* self.selected: set of labels
    highlighted,      \* self.highlighted: a label or None
    colors,           \* self.colors: label -> colour
    animation_timer,  \* TRUE iff self.animation_timer is running
    emitted,          \* the events published by the last operation, in order
    lastOp,           \* the last operation called and how it ended
    loaded,           \* the dataset handed to SussViewer.__init__
    beforePush,       \* <<stack before>> right after a successful push, else <<>>
    scatters          \* TimeseriesPlot.scatters: label -> visibility of its scatters

vars == <<stack, selected, highlighted, colors, animation_timer, emitted,
          lastOp, loaded, beforePush, scatters>>

\* ------------------------------------------------ external collaborators
\* A dataset snapshot: an identity and its label set (ClusterDataset).
Snapshot(id, labels) == [id |-> id, labels |-> labels]

NoDataset == Snapshot(-1, {})

\* ClusterDataset.merge_nodes(labels=...): a new snapshot in which the nodes
\* named by the given labels are replaced by one merged node labelled m
\* (m may be fresh or a reused identifier).
merge_nodes(ds, labels, m, id) == Snapshot(id, (ds.labels \ labels) \cup {m})

\* ClusterDataset.delete_node(label=...): a new snapshot without that node.
delete_node(ds, label, id) == Snapshot(id, ds.labels \ {label})

\* suss.gui.utils.get_changed_labels: labels present in exactly one snapshot.
get_changed_labels(a, b) == (a.labels \ b.labels) \cup (b.labels \ a.labels)

\* suss.gui.utils.make_color_map: one label-derived colour per label.
make_color_map(labels) == [l \in labels |-> l]

\* ------------------------------------------------------------ properties
\* SussViewer.dataset / SussViewer.last_action: top of the stack
DatasetOf(s) == s[Len(s)].ds
dataset == DatasetOf(stack)
last_action == stack[Len(stack)].act

Entry(act, ds) == [act |-> act, ds |-> ds]

\* The identity of a snapshot a transform creates: a new object, distinct
\* from every snapshot the stack holds (the loaded dataset has identity 0).
FreshId ==
    CHOOSE i \in 1..(Len(stack) + 1) :
        /\ \A k \in 1..Len(stack) : stack[k].ds.id # i
        /\ \A j \in 1..(i - 1) : \E k \in 1..Len(stack) : stack[k].ds.id = j

\* ------------------------------------------------------------ signals
\* What an observer reads from the viewer while a signal is delivered.
Seen(stk, sel, hl, col) ==
    [dataset |-> DatasetOf(stk), selected |-> sel, highlighted |-> hl,
     colors |-> col]

Event(chan, new, old, seen) ==
    [chan |-> chan, new |-> new, old |-> old, seen |-> seen]

\* The record of a call: its name, how it ended ("ok", "rejected" with a
\* warning, "raised"), the action name and dataset it pushed or popped, and
\* the viewer state it started from.
Op(name, status, act, produced) ==
    [name |-> name, status |-> status, act |-> act, produced |-> produced,
     before |-> [stack |-> stack, selected |-> selected,
                 highlighted |-> highlighted, colors |-> colors,
                 animation_timer |-> animation_timer,
                 beforePush |-> beforePush]]

\* The record of a call that takes an argument and cannot be rejected.
OpArg(name, arg) ==
    [name |-> name, status |-> "ok", act |-> "", produced |-> NoDataset,
     before |-> Op(name, "ok", "", NoDataset).before, arg |-> arg]

\* ------------------------------------------------------------ TimeseriesPlot
\* TimeseriesPlot.setup_data: nothing is rebuilt for a dataset without nodes;
\* otherwise self.scatters is replaced by one scatter (ndim = 1) per label of
\* parent().dataset, visible iff the label is in parent().selected
setup_dataMutAllVisible(sc, seen) ==
    IF seen.dataset.labels = {} THEN sc
    ELSE [l \in seen.dataset.labels |-> <<TRUE>>]
setup_data(sc, seen) ==
    IF seen.dataset.labels = {} THEN sc
    ELSE [l \in seen.dataset.labels |-> <<l \in seen.selected>>]

\* TimeseriesPlot.reset, the slot of UPDATED_CLUSTERS: every list of scatters
\* is emptied in place (its key stays), then setup_data
TimeseriesPlot_reset(sc, seen) ==
    setup_data([l \in DOMAIN sc |-> <<>>], seen)

\* TimeseriesPlot.on_cluster_select, the slot of CLUSTER_SELECT
on_cluster_select(sc, sel, old_selected) ==
    [l \in DOMAIN sc |-> [k \in 1..Len(sc[l]) |-> l \in sel]]

\* TimeseriesPlot.on_cluster_highlight, the slot of CLUSTER_HIGHLIGHT: it
\* takes three arguments and the signal carries two, so the call fails with
\* a TypeError before the body runs and the scatters are left as they were
on_cluster_highlight(sc, new_highlight, old_highlight) == sc

\* One event delivered to the plot.
Deliver(sc, e) ==
    IF e.chan = "UPDATED_CLUSTERS" THEN TimeseriesPlot_reset(sc, e.seen)
    ELSE IF e.chan = "CLUSTER_SELECT" THEN on_cluster_select(sc, e.new, e.old)
    ELSE on_cluster_highlight(sc, e.new, e.old)

\* The events of an operation delivered in the order they were published.
RECURSIVE DeliverAll(_, _)
DeliverAll(sc, events) ==
    IF events = <<>> THEN sc
    ELSE DeliverAll(Deliver(sc, Head(events)), Tail(events))

\* Signals are delivered synchronously: when an operation ends, the plot has
\* handled every event the operation published.
Delivered == scatters' = DeliverAll(scatters, emitted')

\* ------------------------------------------------------------ history stack
\* self.stack.append((action, dataset))
PushMutReplaceTop(s, act, ds) == SubSeq(s, 1, Len(s) - 1) \o <<Entry(act, ds)>>
Push(s, act, ds) == Append(s, Entry(act, ds))

\* self.stack.pop(): the stack without its last entry
PopMutFront(s) == Tail(s)
Pop(s) == SubSeq(s, 1, Len(s) - 1)

\* self.stack = self.stack[:1]
TruncateMutKeepLast(s) == SubSeq(s, Len(s), Len(s))
Truncate(s) == SubSeq(s, 1, 1)

\* "{} node".format(action) + plural
ActionName(action, n) ==
    IF action = "delete"
    THEN (IF n > 1 THEN "delete nodes" ELSE "delete node")
    ELSE (IF n > 1 THEN "delete unselected nodes" ELSE "delete unselected node")

\* "delete unselected" in last_action, over the names the viewer pushes
ContainsDeleteUnselected(act) ==
    act \in {"delete unselected node", "delete unselected nodes"}

\* ------------------------------------------------------------ Init
Init ==
    /\ \E n \in 0..MaxLoadLabel :
          /\ loaded = Snapshot(0, 1..n)
          /\ stack = <<Entry("load", Snapshot(0, 1..n))>>
          /\ colors = make_color_map(1..n)
          /\ scatters = setup_data(<<>>, Seen(<<Entry("load", Snapshot(0, 1..n))>>,
                                             {}, None, make_color_map(1..n)))
    /\ selected = {}
    /\ highlighted = None
    /\ animation_timer = TRUE
    /\ emitted = <<>>
    /\ beforePush = <<>>
    /\ lastOp = Op("init", "ok", "", NoDataset)

\* ------------------------------------------------------------ selection
\* SussViewer.set_highlight
set_highlightMutOnlyOnChange(label) ==
    /\ highlighted' = label
    /\ emitted' = IF label # highlighted
                  THEN <<Event("CLUSTER_HIGHLIGHT", label, highlighted,
                               Seen(stack, selected, label, colors))>>
                  ELSE <<>>
    /\ lastOp' = OpArg("set_highlight", label)
    /\ Delivered
    /\ beforePush' = <<>>
    /\ UNCHANGED <<stack, selected, colors, animation_timer, loaded>>
set_highlight(label) ==
    /\ highlighted' = label
    /\ emitted' = <<Event("CLUSTER_HIGHLIGHT", label, highlighted,
                          Seen(stack, selected, label, colors))>>
    /\ lastOp' = OpArg("set_highlight", label)
    /\ Delivered
    /\ beforePush' = <<>>
    /\ UNCHANGED <<stack, selected, colors, animation_timer, loaded>>

\* SussViewer.set_selected
set_selectedMutAlwaysEmit(new) ==
    /\ selected' = new
    /\ emitted' = <<Event("CLUSTER_SELECT", new, selected,
                          Seen(stack, new, highlighted, colors))>>
    /\ lastOp' = OpArg("set_selected", new)
    /\ Delivered
    /\ beforePush' = <<>>
    /\ UNCHANGED <<stack, highlighted, colors, animation_timer, loaded>>
set_selected(new) ==
    /\ IF new # selected
       THEN /\ selected' = new
            /\ emitted' = <<Event("CLUSTER_SELECT", new, selected,
                                  Seen(stack, new, highlighted, colors))>>
       ELSE /\ selected' = selected
            /\ emitted' = <<>>
    /\ lastOp' = OpArg("set_selected", new)
    /\ Delivered
    /\ beforePush' = <<>>
    /\ UNCHANGED <<stack, highlighted, colors, animation_timer, loaded>>

\* SussViewer.toggle_selected
toggle_selectedMutAlwaysEmit(label, sel) ==
    LET new == IF sel THEN selected \cup {label} ELSE selected \ {label} IN
    /\ selected' = new
    /\ emitted' = <<Event("CLUSTER_SELECT", new, selected,
                          Seen(stack, new, highlighted, colors))>>
    /\ lastOp' = OpArg("toggle_selected", <<label, sel>>)
    /\ Delivered
    /\ beforePush' = <<>>
    /\ UNCHANGED <<stack, highlighted, colors, animation_timer, loaded>>
toggle_selected(label, sel) ==
    /\ IF sel /\ label \notin selected
       THEN /\ selected' = selected \cup {label}
            /\ emitted' = <<Event("CLUSTER_SELECT", selected \cup {label}, selected,
                                  Seen(stack, selected \cup {label}, highlighted, colors))>>
       ELSE IF ~sel /\ label \in selected
       THEN /\ selected' = selected \ {label}
            /\ emitted' = <<Event("CLUSTER_SELECT", selected \ {label}, selected,
                                  Seen(stack, selected \ {label}, highlighted, colors))>>
       ELSE /\ selected' = selected
            /\ emitted' = <<>>
    /\ lastOp' = OpArg("toggle_selected", <<label, sel>>)
    /\ Delivered
    /\ beforePush' = <<>>
    /\ UNCHANGED <<stack, highlighted, colors, animation_timer, loaded>>

\* SussViewer.select_all
select_allMutAdditive ==
    /\ selected' = dataset.labels
    /\ emitted' = <<Event("CLUSTER_SELECT", dataset.labels, selected,
                          Seen(stack, dataset.labels, highlighted, colors))>>
    /\ lastOp' = Op("select_all", "ok", "", NoDataset)
    /\ Delivered
    /\ beforePush' = <<>>
    /\ UNCHANGED <<stack, highlighted, colors, animation_timer, loaded>>
select_all ==
    LET new == IF selected = dataset.labels THEN {} ELSE dataset.labels IN
    /\ selected' = new
    /\ emitted' = <<Event("CLUSTER_SELECT", new, selected,
                          Seen(stack, new, highlighted, colors))>>
    /\ lastOp' = Op("select_all", "ok", "", NoDataset)
    /\ Delivered
    /\ beforePush' = <<>>
    /\ UNCHANGED <<stack, highlighted, colors, animation_timer, loaded>>

\* SussViewer.clear: CLUSTER_HIGHLIGHT is published with None, but
\* self.highlighted is not assigned
clear ==
    /\ selected' = {}
    /\ emitted' = <<Event("CLUSTER_SELECT", {}, selected,
                          Seen(stack, {}, highlighted, colors)),
                    Event("CLUSTER_HIGHLIGHT", None, highlighted,
                          Seen(stack, {}, highlighted, colors))>>
    /\ lastOp' = Op("clear", "ok", "", NoDataset)
    /\ Delivered
    /\ beforePush' = <<>>
    /\ UNCHANGED <<stack, highlighted, colors, animation_timer, loaded>>

\* ------------------------------------------------------------ edits
\* SussViewer._enstack inside timer_paused(): the timer is stopped, the entry
\* appended, the colours regenerated, UPDATED_CLUSTERS published and the
\* timer restarted.
_enstackMutStaleColors(action, ds) ==
    /\ stack' = Push(stack, action, ds)
    /\ colors' = colors
    /\ animation_timer' = TRUE
    /\ beforePush' = <<stack>>
_enstack(action, ds) ==
    /\ stack' = Push(stack, action, ds)
    /\ colors' = make_color_map(ds.labels)
    /\ animation_timer' = TRUE
    /\ beforePush' = <<stack>>

\* The UPDATED_CLUSTERS event of _enstack; sel is the selection observers read
\* while it is delivered.
EnstackEventMutSwapped(action, ds, sel) ==
    Event("UPDATED_CLUSTERS", dataset, DatasetOf(Push(stack, action, ds)),
          Seen(Push(stack, action, ds), sel, highlighted,
               make_color_map(ds.labels)))
EnstackEvent(action, ds, sel) ==
    Event("UPDATED_CLUSTERS", DatasetOf(Push(stack, action, ds)), dataset,
          Seen(Push(stack, action, ds), sel, highlighted,
               make_color_map(ds.labels)))

\* merge: self.selected = set.intersection(new_labels, changed_labels)
MergeSelectionMutChanged(new_labels, changed_labels) == changed_labels
MergeSelection(new_labels, changed_labels) == new_labels \cap changed_labels

\* SussViewer.merge, fewer than two labels selected: warning and return
MergeRejected ==
    /\ Cardinality(selected) < 2
    /\ emitted' = <<>>
    /\ lastOp' = Op("merge", "rejected", "", NoDataset)
    /\ Delivered
    /\ beforePush' = <<>>
    /\ UNCHANGED <<stack, selected, highlighted, colors, animation_timer,
                   loaded>>

\* SussViewer.merge, at least two labels selected
MergeDone(m) ==
    /\ Cardinality(selected) >= 2
    /\ Len(stack) < MaxStack
    /\ m \in Labels \ (dataset.labels \ selected)
    /\ LET _new_dataset == merge_nodes(dataset, selected, m, FreshId)
           new_labels == _new_dataset.labels
           changed_labels == get_changed_labels(_new_dataset, dataset)
           new_selected == MergeSelection(new_labels, changed_labels)
       IN /\ selected' = new_selected
          /\ _enstack("merge", _new_dataset)
          /\ emitted' = <<EnstackEvent("merge", _new_dataset, new_selected),
                          Event("CLUSTER_SELECT", new_selected, selected,
                                Seen(Push(stack, "merge", _new_dataset),
                                     new_selected, highlighted,
                                     make_color_map(new_labels)))>>
          /\ lastOp' = Op("merge", "ok", "merge", _new_dataset)
          /\ Delivered
    /\ UNCHANGED <<highlighted, loaded>>

merge == MergeRejected \/ (\E m \in Labels : MergeDone(m))

\* SussViewer._delete: the loop "for label in to_delete: delete_node(label)"
RECURSIVE DeleteNodes(_, _, _)
DeleteNodes(ds, to_delete, id) ==
    IF to_delete = {} THEN ds
    ELSE LET label == CHOOSE l \in to_delete : TRUE
         IN DeleteNodes(delete_node(ds, label, id), to_delete \ {label}, id)

\* SussViewer.delete, nothing selected: _delete warns and returns, then
\* self.selected = set()
DeleteRejected ==
    /\ Cardinality(selected) = 0
    /\ selected' = {}
    /\ emitted' = <<>>
    /\ lastOp' = Op("delete", "rejected", "", NoDataset)
    /\ Delivered
    /\ beforePush' = <<>>
    /\ UNCHANGED <<stack, highlighted, colors, animation_timer, loaded>>

\* SussViewer.delete with a selection: _delete pushes while self.selected
\* still holds the deleted labels, and only then self.selected = set()
DeleteDone ==
    /\ Cardinality(selected) # 0
    /\ Len(stack) < MaxStack
    /\ LET _new_dataset == DeleteNodes(dataset, selected, FreshId)
           action == ActionName("delete", Cardinality(selected))
       IN /\ _enstack(action, _new_dataset)
          /\ emitted' = <<EnstackEvent(action, _new_dataset, selected)>>
          /\ lastOp' = Op("delete", "ok", action, _new_dataset)
          /\ Delivered
    /\ selected' = {}
    /\ UNCHANGED <<highlighted, loaded>>

delete == DeleteRejected \/ DeleteDone

\* delete_unselected: self.selected = set(), before _delete is called
DeleteUnselectedSelectionMutKeep(sel) == sel
DeleteUnselectedSelection(sel) == {}

\* SussViewer.delete_unselected when every label is selected: to_delete is
\* empty, _delete warns and returns; the selection has already been replaced
\* and CLUSTER_SELECT is still published
DeleteUnselectedRejected ==
    /\ dataset.labels \ selected = {}
    /\ selected' = DeleteUnselectedSelection(selected)
    /\ emitted' = <<Event("CLUSTER_SELECT", DeleteUnselectedSelection(selected),
                          selected,
                          Seen(stack, DeleteUnselectedSelection(selected),
                               highlighted, colors))>>
    /\ lastOp' = Op("delete_unselected", "rejected", "", NoDataset)
    /\ Delivered
    /\ beforePush' = <<>>
    /\ UNCHANGED <<stack, highlighted, colors, animation_timer, loaded>>

\* SussViewer.delete_unselected with something to delete
DeleteUnselectedDone ==
    /\ dataset.labels \ selected # {}
    /\ Len(stack) < MaxStack
    /\ LET to_delete == dataset.labels \ selected
           new_selected == DeleteUnselectedSelection(selected)
           _new_dataset == DeleteNodes(dataset, to_delete, FreshId)
           action == ActionName("delete unselected", Cardinality(to_delete))
       IN /\ selected' = new_selected
          /\ _enstack(action, _new_dataset)
          /\ emitted' = <<EnstackEvent(action, _new_dataset, new_selected),
                          Event("CLUSTER_SELECT", new_selected, selected,
                                Seen(Push(stack, action, _new_dataset),
                                     new_selected, highlighted,
                                     make_color_map(_new_dataset.labels)))>>
          /\ lastOp' = Op("delete_unselected", "ok", action, _new_dataset)
          /\ Delivered
    /\ UNCHANGED <<highlighted, loaded>>

delete_unselected == DeleteUnselectedRejected \/ DeleteUnselectedDone

\* SussViewer.restore(dataset): the history menu offers the datasets of the
\* entries of the stack
restore(i) ==
    /\ i \in 1..Len(stack)
    /\ Len(stack) < MaxStack
    /\ _enstack("restored previous state", stack[i].ds)
    /\ emitted' = <<EnstackEvent("restored previous state", stack[i].ds, selected)>>
    /\ lastOp' = Op("restore", "ok", "restored previous state", stack[i].ds)
    /\ Delivered
    /\ UNCHANGED <<selected, highlighted, loaded>>

\* _undo: the selection after the pop
UndoSelectionMutNewLabels(last, new_labels, changed_labels, old_labels) ==
    IF ContainsDeleteUnselected(last) THEN new_labels
    ELSE new_labels \cap changed_labels
UndoSelectionMutOldLabels(last, new_labels, changed_labels, old_labels) ==
    IF ContainsDeleteUnselected(last) THEN old_labels
    ELSE old_labels \cap changed_labels
UndoSelection(last, new_labels, changed_labels, old_labels) ==
    IF ContainsDeleteUnselected(last) THEN old_labels
    ELSE new_labels \cap changed_labels

\* SussViewer._undo with only the load entry: print and return
UndoNothingLeftMutClear ==
    /\ Len(stack) = 1
    /\ selected' = {}
    /\ emitted' = <<Event("CLUSTER_SELECT", {}, selected,
                          Seen(stack, {}, highlighted, colors))>>
    /\ lastOp' = Op("_undo", "rejected", "", NoDataset)
    /\ Delivered
    /\ beforePush' = <<>>
    /\ UNCHANGED <<stack, highlighted, colors, animation_timer, loaded>>
UndoNothingLeft ==
    /\ Len(stack) = 1
    /\ emitted' = <<>>
    /\ lastOp' = Op("_undo", "rejected", "", NoDataset)
    /\ Delivered
    /\ beforePush' = <<>>
    /\ UNCHANGED <<stack, selected, highlighted, colors, animation_timer,
                   loaded>>

\* SussViewer._undo with something to undo
UndoPop ==
    /\ Len(stack) # 1
    /\ LET _old_dataset == dataset
           popped == last_action
           new_stack == Pop(stack)
           _new_dataset == DatasetOf(new_stack)
           new_labels == _new_dataset.labels
           changed_labels == get_changed_labels(_new_dataset, _old_dataset)
           new_selected == UndoSelection(popped, new_labels, changed_labels,
                                         _old_dataset.labels)
           new_colors == make_color_map(_new_dataset.labels)
       IN /\ stack' = new_stack
          /\ selected' = new_selected
          /\ colors' = new_colors
          /\ emitted' = <<Event("UPDATED_CLUSTERS", _new_dataset, _old_dataset,
                                Seen(new_stack, new_selected, highlighted,
                                     new_colors)),
                          Event("CLUSTER_SELECT", new_selected, selected,
                                Seen(new_stack, new_selected, highlighted,
                                     new_colors))>>
          /\ lastOp' = Op("_undo", "ok", popped, _old_dataset)
          /\ Delivered
    /\ animation_timer' = TRUE
    /\ beforePush' = <<>>
    /\ UNCHANGED <<highlighted, loaded>>

_undo == UndoNothingLeft \/ UndoPop

\* SussViewer.reset: truncates, publishes, then calls self.dataset_updated(),
\* which SussViewer does not define: AttributeError inside timer_paused(),
\* whose generator has no try/finally, so the timer is not restarted
reset ==
    /\ stack' = Truncate(stack)
    /\ colors' = make_color_map(DatasetOf(Truncate(stack)).labels)
    /\ emitted' = <<Event("UPDATED_CLUSTERS", DatasetOf(Truncate(stack)), dataset,
                          Seen(Truncate(stack), selected, highlighted,
                               make_color_map(DatasetOf(Truncate(stack)).labels)))>>
    /\ animation_timer' = FALSE
    /\ lastOp' = Op("reset", "raised", "", NoDataset)
    /\ Delivered
    /\ beforePush' = <<>>
    /\ UNCHANGED <<selected, highlighted, loaded>>

\* ------------------------------------------------------------ Next
Next ==
    \/ \E l \in HighlightInputs : set_highlight(l)
    \/ \E S \in SUBSET dataset.labels : set_selected(S)
    \/ \E l \in Labels, b \in BOOLEAN : toggle_selected(l, b)
    \/ select_all
    \/ clear
    \/ merge
    \/ delete
    \/ delete_unselected
    \/ \E i \in 1..MaxStack : restore(i)
    \/ _undo
    \/ reset

Spec == Init /\ [][Next]_vars

\* ------------------------------------------------------------ claims
Before == lastOp.before
DatasetBefore == DatasetOf(Before.stack)
Ended(name, status) == lastOp.name = name /\ lastOp.status = status
SymDiff(A, B) == (A \ B) \cup (B \ A)
Count(chan) == Cardinality({k \in 1..Len(emitted) : emitted[k].chan = chan})

\* C1: after a successful merge turning OLD into NEW, selected is NEW.labels
\* intersected with the symmetric difference of OLD.labels and NEW.labels.
C1_MergeSelectsNewLabels ==
    Ended("merge", "ok") =>
        selected = dataset.labels \cap SymDiff(DatasetBefore.labels, dataset.labels)

\* labels {1,2}, both selected, merged into a node with the new label 3
C1_Witness ==
    /\ Ended("merge", "ok")
    /\ DatasetBefore.labels = {1, 2}
    /\ Before.selected = {1, 2}
    /\ dataset.labels = {3}
    /\ selected = {3}

\* C2 as stated: after delete_unselected with a non-empty proper subset of the
\* labels selected, selected is the full label set of the new dataset.
C2_DeleteUnselectedSelectsSurvivors ==
    ( /\ Ended("delete_unselected", "ok")
      /\ Before.selected # {}
      /\ Before.selected \subseteq DatasetBefore.labels
      /\ Before.selected # DatasetBefore.labels )
    => selected = dataset.labels

\* C2 amended: after delete_unselected with a non-empty proper subset of the
\* labels selected, the new dataset's labels are the former selection and
\* selected is empty.
C2_DeleteUnselectedClearsSelection ==
    ( /\ Ended("delete_unselected", "ok")
      /\ Before.selected # {}
      /\ Before.selected \subseteq DatasetBefore.labels
      /\ Before.selected # DatasetBefore.labels )
    => (selected = {} /\ dataset.labels = Before.selected)

C2_Witness ==
    /\ Ended("delete_unselected", "ok")
    /\ DatasetBefore.labels = {1, 2}
    /\ Before.selected = {2}
    /\ dataset.labels = {2}
    /\ selected = {}

\* C3: after _undo pops an entry whose name does not contain
\* "delete unselected", selected is RESTORED.labels intersected with the
\* symmetric difference of RESTORED.labels and POPPED.labels, whatever was
\* selected before.
C3_UndoSelectsRestoredLabels ==
    ( /\ Ended("_undo", "ok")
      /\ ~ContainsDeleteUnselected(Before.stack[Len(Before.stack)].act) )
    => selected = dataset.labels \cap SymDiff(dataset.labels, DatasetBefore.labels)

\* the merge {1,2} -> {3} is undone while nothing is selected
C3_Witness ==
    /\ Ended("_undo", "ok")
    /\ Before.stack[Len(Before.stack)].act = "merge"
    /\ DatasetBefore.labels = {3}
    /\ Before.selected = {}
    /\ dataset.labels = {1, 2}
    /\ selected = {1, 2}

\* C4 as stated: after _undo pops a delete-unselected entry, selected is the
\* full label set of the restored dataset.
C4_UndoDeleteUnselectedSelectsRestored ==
    ( /\ Ended("_undo", "ok")
      /\ ContainsDeleteUnselected(Before.stack[Len(Before.stack)].act) )
    => selected = dataset.labels

\* C4 amended: after _undo pops a delete-unselected entry, selected is the
\* full label set of the popped dataset.
C4_UndoDeleteUnselectedSelectsPopped ==
    ( /\ Ended("_undo", "ok")
      /\ ContainsDeleteUnselected(Before.stack[Len(Before.stack)].act) )
    => selected = DatasetBefore.labels

C4_Witness ==
    /\ Ended("_undo", "ok")
    /\ Before.stack[Len(Before.stack)].act = "delete unselected node"
    /\ DatasetBefore.labels = {2}
    /\ Before.selected = {}
    /\ dataset.labels = {1, 2}
    /\ selected = {2}

\* C5: the stack is never empty, its first entry is the ("load", loaded
\* dataset) entry, and the dataset observers read while any event is delivered
\* is the dataset of the last entry.
C5_StackRooted ==
    /\ Len(stack) >= 1
    /\ stack[1] = Entry("load", loaded)
    /\ \A k \in 1..Len(emitted) : emitted[k].seen.dataset = stack[Len(stack)].ds

\* reset has truncated a stack that held an edit
C5_Witness ==
    /\ lastOp.name = "reset"
    /\ Len(Before.stack) > 1
    /\ DatasetBefore # loaded
    /\ stack = <<Entry("load", loaded)>>

\* C6: _undo with only the load entry changes nothing and publishes nothing.
C6_UndoNothingLeftIsNoop ==
    Ended("_undo", "rejected") =>
        /\ stack = Before.stack
        /\ selected = Before.selected
        /\ highlighted = Before.highlighted
        /\ colors = Before.colors
        /\ emitted = <<>>

C6_Witness ==
    /\ Ended("_undo", "rejected")
    /\ Len(Before.stack) = 1
    /\ selected # {}
    /\ highlighted # None

C9_RejectedLeavesState ==
    ( /\ lastOp.name \in {"merge", "delete", "delete_unselected"}
      /\ lastOp.status = "rejected" )
    => /\ stack = Before.stack
       /\ selected = Before.selected

\* C10: after clear, selected is empty, highlighted is None, and one
\* CLUSTER_SELECT and one CLUSTER_HIGHLIGHT event have been published.
C10_ClearClearsBoth ==
    lastOp.name = "clear" =>
        /\ selected = {}
        /\ highlighted = None
        /\ Count("CLUSTER_SELECT") = 1
        /\ Count("CLUSTER_HIGHLIGHT") = 1

StructuralEdits == {"merge", "delete", "delete_unselected", "_undo"}

\* C11: every successful merge, delete, delete_unselected and _undo publishes
\* exactly one CLUSTER_SELECT event, and it carries the recomputed selection.
C11_EditPublishesOneSelect ==
    ( /\ lastOp.name \in StructuralEdits
      /\ lastOp.status = "ok" )
    => /\ Count("CLUSTER_SELECT") = 1
       /\ \A k \in 1..Len(emitted) :
             emitted[k].chan = "CLUSTER_SELECT" => emitted[k].new = selected

\* C12: toggle_selected(l, s) changes selected and publishes one
\* CLUSTER_SELECT event (new selection, selection before) exactly when l is
\* added while absent or removed while present, and otherwise changes and
\* publishes nothing; toggle_selected(l, True) called twice in a row from a
\* selection without l leaves selected as the first call left it and
\* publishes one event in total, whose previous value is the selection before
\* the first call.
C12_ToggleOnlyOnTransition ==
    [][ lastOp'.name = "toggle_selected" =>
          LET l == lastOp'.arg[1]
              s == lastOp'.arg[2]
              transition == (s /\ l \notin selected) \/ (~s /\ l \in selected)
          IN /\ selected' = IF s THEN selected \cup {l} ELSE selected \ {l}
             /\ IF transition
                THEN /\ Len(emitted') = 1
                     /\ emitted'[1].chan = "CLUSTER_SELECT"
                     /\ emitted'[1].new = selected'
                     /\ emitted'[1].old = selected
                ELSE /\ emitted' = <<>>
                     /\ selected' = selected
             /\ ( /\ s
                  /\ lastOp.name = "toggle_selected"
                  /\ lastOp.arg = <<l, TRUE>>
                  /\ l \notin lastOp.before.selected )
                => /\ selected' = selected
                   /\ Len(emitted) + Len(emitted') = 1
                   /\ emitted[1].old = lastOp.before.selected
      ]_vars

\* a label that is already selected is toggled on again: nothing is published
C12_Witness ==
    /\ lastOp.name = "toggle_selected"
    /\ lastOp.arg = <<1, TRUE>>
    /\ 1 \in Before.selected
    /\ selected = Before.selected
    /\ emitted = <<>>

\* C13: select_all empties the selection when it equals the current dataset's
\* label set and otherwise makes it that label set; a second select_all right
\* after one that started from the empty selection ends with the empty
\* selection, for every dataset, one without labels included.
C13_SelectAllToggles ==
    [][ lastOp'.name = "select_all" =>
          /\ selected' = IF selected = dataset.labels THEN {} ELSE dataset.labels
          /\ (lastOp.name = "select_all" /\ lastOp.before.selected = {})
             => selected' = {}
      ]_vars

\* the second of two calls: the full selection {1,2} is emptied again
C13_Witness ==
    /\ lastOp.name = "select_all"
    /\ dataset.labels = {1, 2}
    /\ Before.selected = {1, 2}
    /\ selected = {}
    /\ Len(emitted) = 1

\* C14: set_selected(new_set) makes selected equal to new_set, and publishes
\* one CLUSTER_SELECT event (new_set, selection before) if new_set differs
\* from the selection before the call, and nothing if it does not.
C14_SetSelectedEmitsOnChange ==
    lastOp.name = "set_selected" =>
        /\ selected = lastOp.arg
        /\ IF lastOp.arg # Before.selected
           THEN /\ Len(emitted) = 1
                /\ emitted[1].chan = "CLUSTER_SELECT"
                /\ emitted[1].new = lastOp.arg
                /\ emitted[1].old = Before.selected
           ELSE /\ emitted = <<>>
                /\ selected = Before.selected

\* set_selected({1}) while {1} is selected: silent
C14_Witness ==
    /\ lastOp.name = "set_selected"
    /\ lastOp.arg = {1}
    /\ Before.selected = {1}
    /\ selected = {1}
    /\ emitted = <<>>

\* C15: set_highlight(label) sets highlighted to label and publishes exactly
\* one CLUSTER_HIGHLIGHT event (label, highlighted before), also when label is
\* the value before or None; selected and the stack are left as they were.
C15_SetHighlightAlwaysEmits ==
    lastOp.name = "set_highlight" =>
        /\ highlighted = lastOp.arg
        /\ Len(emitted) = 1
        /\ emitted[1].chan = "CLUSTER_HIGHLIGHT"
        /\ emitted[1].new = lastOp.arg
        /\ emitted[1].old = Before.highlighted
        /\ selected = Before.selected
        /\ stack = Before.stack

\* the highlighted label is highlighted again while a label is selected
C15_Witness ==
    /\ lastOp.name = "set_highlight"
    /\ lastOp.arg = 1
    /\ Before.highlighted = 1
    /\ highlighted = 1
    /\ selected # {}
    /\ Len(emitted) = 1

\* C16: reset leaves the stack holding only the load entry, makes the loaded
\* dataset current, publishes one UPDATED_CLUSTERS event (loaded dataset,
\* dataset current before), and completes normally.
C16_ResetCompletes ==
    lastOp.name = "reset" =>
        /\ stack = <<Entry("load", loaded)>>
        /\ dataset = loaded
        /\ Len(emitted) = 1
        /\ emitted[1].chan = "UPDATED_CLUSTERS"
        /\ emitted[1].new = loaded
        /\ emitted[1].old = DatasetBefore
        /\ lastOp.status = "ok"

\* C17: when the UPDATED_CLUSTERS event of a successful merge, delete,
\* delete_unselected or _undo is delivered, selected already is the selection
\* the edit ends with and holds no label absent from the new dataset.
C17_SelectionReadyAtDatasetChanged ==
    ( /\ lastOp.name \in StructuralEdits
      /\ lastOp.status = "ok" )
    => \A k \in 1..Len(emitted) :
          emitted[k].chan = "UPDATED_CLUSTERS" =>
             /\ emitted[k].seen.selected = selected
             /\ emitted[k].seen.selected \subseteq emitted[k].new.labels

\* C18: a successful _undo or merge publishes one UPDATED_CLUSTERS event
\* (new current dataset, dataset current before) and then one CLUSTER_SELECT
\* event (new selection, selection before), in that order.
C18_DatasetThenSelect ==
    ( /\ lastOp.name \in {"_undo", "merge"}
      /\ lastOp.status = "ok" )
    => /\ Len(emitted) = 2
       /\ emitted[1].chan = "UPDATED_CLUSTERS"
       /\ emitted[1].new = dataset
       /\ emitted[1].old = DatasetBefore
       /\ emitted[2].chan = "CLUSTER_SELECT"
       /\ emitted[2].new = selected
       /\ emitted[2].old = Before.selected

\* {1,2} of a dataset {1,2} are merged into 3
C18_Witness ==
    /\ Ended("merge", "ok")
    /\ Len(emitted) = 2
    /\ emitted[1].old.labels = {1, 2}
    /\ emitted[1].new.labels = {3}
    /\ emitted[1].new # emitted[1].old
    /\ emitted[2].old = {1, 2}
    /\ emitted[2].new = {3}

\* C19: every event carries as its new value what the viewer holds for its
\* channel while the event is delivered: the current dataset, selected,
\* highlighted.
C19_ReplaceThenNotify ==
    \A k \in 1..Len(emitted) :
        /\ emitted[k].chan = "UPDATED_CLUSTERS"
              => emitted[k].new = emitted[k].seen.dataset
        /\ emitted[k].chan = "CLUSTER_SELECT"
              => emitted[k].new = emitted[k].seen.selected
        /\ emitted[k].chan = "CLUSTER_HIGHLIGHT"
              => emitted[k].new = emitted[k].seen.highlighted

\* C20: after every operation, and while any UPDATED_CLUSTERS event is
\* delivered, the labels that have a colour are exactly the labels of the
\* current dataset.
C20_ColorsMatchLabels ==
    /\ DOMAIN colors = dataset.labels
    /\ \A k \in 1..Len(emitted) :
          emitted[k].chan = "UPDATED_CLUSTERS" =>
             DOMAIN emitted[k].seen.colors = emitted[k].seen.dataset.labels

\* a delete has replaced the colours of {1,2} by those of {2}
C20_Witness ==
    /\ Ended("delete", "ok")
    /\ DOMAIN Before.colors = {1, 2}
    /\ DOMAIN colors = {2}
    /\ dataset.labels = {2}
    /\ Len(emitted) = 1
    /\ DOMAIN emitted[1].seen.colors = {2}

\* C21: after every edit that makes a dataset current (merge, delete,
\* delete_unselected, _undo, restore, reset), every label in selected is a
\* label of the current dataset, whatever was toggled into selected before.
C21_EditPrunesSelection ==
    ( /\ lastOp.name \in StructuralEdits \cup {"restore", "reset"}
      /\ Count("UPDATED_CLUSTERS") = 1 )
    => selected \subseteq dataset.labels

\* C22: once an operation has ended, on whatever exit path, the animation
\* timer is running.
C22_TimerRunningAfterOperation ==
    animation_timer = TRUE

\* C23: once an operation has returned and the current dataset is not empty,
\* the plot holds scatters for exactly the labels of the current dataset and
\* the scatter of each label is visible iff the label is in selected; this
\* includes delete, which publishes no CLUSTER_SELECT event.
C23_PlotFollowsSelection ==
    dataset.labels # {} =>
        /\ DOMAIN scatters = dataset.labels
        /\ \A l \in dataset.labels : scatters[l] = <<l \in selected>>

\* label 1 of {1,2} was selected, hence visible, and has been deleted: the
\* plot is rebuilt with the scatter of 2 alone, hidden, and no highlight was set
C23_Witness ==
    /\ Ended("delete", "ok")
    /\ highlighted = None
    /\ DatasetBefore.labels = {1, 2}
    /\ Before.selected = {1}
    /\ dataset.labels = {2}
    /\ selected = {}
    /\ DOMAIN scatters = {2}
    /\ scatters[2] = <<FALSE>>

====
